---------------------------- MODULE Spec2Model ----------------------------
(***************************************************************************)
(* A model of src/app/components/SearchBar.tsx: the debounced suggestion   *)
(* fetch (fetchSuggestions), the selection handler (handleSearch) and the  *)
(* input glue (handleInputChange, onKeyDown, the search icon, the list     *)
(* items), with the strings handled character by character the way the     *)
(* JavaScript string functions the component calls handle them.            *)
(***************************************************************************)
EXTENDS Integers, Sequences, FiniteSets, TLC

(***************************************************************************)
(* Bounds of the model.                                                    *)
(***************************************************************************)
\* the longest suggestion list the service answers with
MaxSuggestions == 2
\* the number of requests the component issues in one run
MaxFetches == 2
\* the number of keystrokes counted in one burst
MaxBurst == 2

(***************************************************************************)
(* Strings.  A string is a TLA+ string; CharAt(s, i) is its i-th           *)
(* character as a string of length one.                                    *)
(***************************************************************************)
CharAt(s, i) == SubSeq(s, i, i)

Chars(s) == {CharAt(s, i) : i \in 1..Len(s)}

Digits == Chars("0123456789")

\* the ASCII members of ECMAScript's WhiteSpace and LineTerminator
WhiteSpace == {" ", "\t", "\n", "\r", "\f"}

\* String.prototype.trim
RECURSIVE trimStart(_)
trimStart(s) ==
    IF Len(s) > 0 /\ CharAt(s, 1) \in WhiteSpace
    THEN trimStart(SubSeq(s, 2, Len(s)))
    ELSE s

RECURSIVE trimEnd(_)
trimEnd(s) ==
    IF Len(s) > 0 /\ CharAt(s, Len(s)) \in WhiteSpace
    THEN trimEnd(SubSeq(s, 1, Len(s) - 1))
    ELSE s

trim(s) == trimEnd(trimStart(s))

\* String.prototype.split(" "): the pieces between single spaces, the empty
\* ones kept; the result is a sequence of strings and never empty
RECURSIVE splitFrom(_, _, _)
splitFrom(s, i, piece) ==
    IF i > Len(s) THEN <<piece>>
    ELSE IF CharAt(s, i) = " "
         THEN <<piece>> \o splitFrom(s, i + 1, "")
         ELSE splitFrom(s, i + 1, piece \o CharAt(s, i))

split(s) == splitFrom(s, 1, "")

\* Array.prototype.slice(0, n)
slice(parts, n) == SubSeq(parts, 1, IF Len(parts) < n THEN Len(parts) ELSE n)

\* Array.prototype.join(" ")
RECURSIVE join(_)
join(parts) ==
    IF Len(parts) = 0 THEN ""
    ELSE IF Len(parts) = 1 THEN parts[1]
         ELSE parts[1] \o " " \o join(Tail(parts))

\* String.prototype.startsWith
startsWith(s, prefix) ==
    Len(prefix) <= Len(s) /\ SubSeq(s, 1, Len(prefix)) = prefix

(***************************************************************************)
(* Number(s) for a string, as far as isNaN sees it: ECMAScript's           *)
(* StringToNumber grammar.  StringNumericLiteral is optional white space   *)
(* around nothing (the number 0) or around a StrNumericLiteral.            *)
(***************************************************************************)
AllIn(s, set) == \A i \in 1..Len(s) : CharAt(s, i) \in set

Count(s, c) == Cardinality({i \in 1..Len(s) : CharAt(s, i) = c})

\* DecimalDigits
IsDecimalDigits(s) == Len(s) > 0 /\ AllIn(s, Digits)

\* DecimalDigits . DecimalDigits(opt)  |  . DecimalDigits  |  DecimalDigits
IsMantissa(s) ==
    /\ AllIn(s, Digits \cup {"."})
    /\ Count(s, ".") <= 1
    /\ \E i \in 1..Len(s) : CharAt(s, i) \in Digits

\* what follows the e of an ExponentPart: a SignedInteger
IsSignedInteger(s) ==
    IF Len(s) > 0 /\ CharAt(s, 1) \in {"+", "-"}
    THEN IsDecimalDigits(SubSeq(s, 2, Len(s)))
    ELSE IsDecimalDigits(s)

\* StrUnsignedDecimalLiteral
IsUnsignedDecimal(s) ==
    \/ s = "Infinity"
    \/ IsMantissa(s)
    \/ \E k \in 1..Len(s) :
          /\ CharAt(s, k) \in {"e", "E"}
          /\ IsMantissa(SubSeq(s, 1, k - 1))
          /\ IsSignedInteger(SubSeq(s, k + 1, Len(s)))

\* StrDecimalLiteral: an optional sign before a StrUnsignedDecimalLiteral
IsStrDecimal(s) ==
    IF Len(s) > 0 /\ CharAt(s, 1) \in {"+", "-"}
    THEN IsUnsignedDecimal(SubSeq(s, 2, Len(s)))
    ELSE IsUnsignedDecimal(s)

\* NonDecimalIntegerLiteral: 0x, 0o and 0b literals, unsigned
IsNonDecimalInteger(s) ==
    /\ Len(s) >= 3
    /\ CharAt(s, 1) = "0"
    /\ \/ CharAt(s, 2) \in {"x", "X"}
          /\ AllIn(SubSeq(s, 3, Len(s)), Digits \cup Chars("abcdefABCDEF"))
       \/ CharAt(s, 2) \in {"o", "O"}
          /\ AllIn(SubSeq(s, 3, Len(s)), Chars("01234567"))
       \/ CharAt(s, 2) \in {"b", "B"}
          /\ AllIn(SubSeq(s, 3, Len(s)), Chars("01"))

\* isNaN(Number(s))
isNaNNumber(s) ==
    LET t == trim(s)
    IN  ~ (t = "" \/ IsStrDecimal(t) \/ IsNonDecimalInteger(t))

(***************************************************************************)
(* encodeURIComponent: the unreserved characters stay, every other         *)
(* character becomes the %XX of its UTF-8 bytes.                           *)
(***************************************************************************)
Unreserved ==
    Chars("ABCDEFGHIJKLMNOPQRSTUVWXYZabcdefghijklmnopqrstuvwxyz0123456789-_.!~*'()")

\* the escapes of the reserved ASCII characters the inputs can hold
PercentEscape(c) ==
    CASE c = " "  -> "%20"
      [] c = "\t" -> "%09"
      [] c = "%"  -> "%25"
      [] c = "&"  -> "%26"
      [] c = "+"  -> "%2B"
      [] c = ","  -> "%2C"
      [] c = "/"  -> "%2F"
      [] c = ":"  -> "%3A"
      [] c = "="  -> "%3D"
      [] c = "?"  -> "%3F"

RECURSIVE encodeURIComponent(_)
encodeURIComponent(s) ==
    IF Len(s) = 0 THEN ""
    ELSE (IF CharAt(s, 1) \in Unreserved THEN CharAt(s, 1)
          ELSE PercentEscape(CharAt(s, 1)))
         \o encodeURIComponent(SubSeq(s, 2, Len(s)))

(***************************************************************************)
(* The inputs of the model.                                                *)
(***************************************************************************)
\* the values a keystroke leaves in the input box: an empty box, a text whose
\* trimmed length is 1, and two texts long enough to be queried, one of them
\* with white space around it
Inputs == {"", "c ", "cs", " cse"}

\* the entries the search service answers with, in its ranking.  A
\* Suggestion is {suggestion, type} (the interface at the top of the file).
Catalog ==
    << [suggestion |-> "CSE 3320 OS",   type |-> "course"],
       [suggestion |-> "CSE 3320 OS",   type |-> "professor"],
       [suggestion |-> "Jane Smith",    type |-> "professor"],
       [suggestion |-> "Kim 2024 Lee",  type |-> "professor"],
       [suggestion |-> "CSE 1e10 X",    type |-> "course"],
       [suggestion |-> "CSE 3320L LAB", type |-> "course"],
       [suggestion |-> "CSE  3320 OS",  type |-> "course"],
       [suggestion |-> "",              type |-> "professor"] >>

\* a response body: a window of at most MaxSuggestions entries of the ranking
Responses ==
    {SubSeq(Catalog, w[1], w[1] + w[2] - 1) :
        w \in {v \in (1..Len(Catalog)) \X (0..MaxSuggestions) :
                  v[1] + v[2] - 1 <= Len(Catalog)}}

\* an optional string prop: <<>> when the caller leaves it out, <<s>> when
\* the caller passes s
CourseProps == {<<>>, <<"">>, <<"CSE 3320">>}

ProfessorProps == {<<>>, <<"">>, <<"Jane Smith">>}

RouteTypes == {"none", "course", "professor"}

InitialValues == {"", "CSE 3320"}

\* why a request fails: fetch rejects, the status is not ok, json() rejects
FailureCauses == {"network", "status", "body"}

(***************************************************************************)
(* The state.                                                              *)
(***************************************************************************)
VARIABLES
    \* the props
    initialValue,   \* initialValue
    resetState,     \* whether the caller passed resetState
    course,         \* course, an optional string
    professor,      \* professor, an optional string
    routeType,      \* routeType, "none" for null or left out
    \* the component's state
    searchInput,    \* useState(initialValue)
    suggestions,    \* useState<Suggestion[]>([])
    isLoading,      \* useState(false)
    mounted,        \* whether the component is mounted
    \* the debounced function and the requests it has sent
    lastArgs,       \* debounce's pending call: <<>> or <<input>>
    inflight,       \* the requests awaiting their completion: {[id, query]}
    issued,         \* how many requests have been sent
    \* what the last step was and did
    ev,             \* the handler that ran last and its input
    calls,          \* the calls it made to the outside, in order, and for
                    \* handleSearch the calls of its setters as well
    owner,          \* the request whose completion wrote suggestions, or 0
    burst,          \* the keystrokes since the debounced function last ran
    cleared         \* a selection has run and no keystroke has come since

vars == <<initialValue, resetState, course, professor, routeType,
          searchInput, suggestions, isLoading, mounted,
          lastArgs, inflight, issued, ev, calls, owner, burst, cleared>>

props == <<initialValue, resetState, course, professor, routeType>>

Event(kind, text, type, id) ==
    [kind |-> kind, text |-> text, type |-> type, id |-> id]

Call(fn, arg) == [fn |-> fn, arg |-> arg]

NoBurst == [len |-> 0, last |-> ""]

\* the state after the first render and its effects: the input box holds
\* initialValue, the list is empty, nothing is scheduled
Mounted ==
    /\ searchInput = initialValue
    /\ suggestions = <<>>
    /\ isLoading = FALSE
    /\ mounted = TRUE
    /\ lastArgs = <<>>
    /\ inflight = {}
    /\ issued = 0
    /\ ev = Event("mount", "", "", 0)
    /\ calls = <<>>
    /\ owner = 0
    /\ burst = NoBurst
    /\ cleared = FALSE

\* mounted by a page that shows nothing yet, with an empty input box
Init ==
    /\ initialValue = ""
    /\ resetState = TRUE
    /\ course = <<>>
    /\ professor = <<>>
    /\ routeType = "none"
    /\ Mounted

(***************************************************************************)
(* fetchSuggestions: debounce(async (input) => ..., 300).  Of lodash's     *)
(* debounce the model keeps what the component relies on: a call replaces  *)
(* the pending arguments and restarts the 300 ms timer, the function runs  *)
(* once, with the last arguments, when the timer runs out, and cancel()    *)
(* drops the pending call.  A keystroke that comes while a call is pending *)
(* is a keystroke within the quiet window.                                 *)
(***************************************************************************)
wait == 300

\* a debounce that keeps the first arguments of a burst
debouncedKeepsFirst(pending, input) ==
    IF pending = <<>> THEN <<input>> ELSE pending

\* a debounce that queues the calls of a burst
debouncedQueues(pending, input) == pending \o <<input>>

\* the pending call after the debounced function is called with input
debounced(pending, input) == <<input>>

\* the condition without the trim
shouldFetchUntrimmed(input) == Len(input) > 1

\* the condition with > 0 for > 1
shouldFetchAnyText(input) == Len(trim(input)) > 0

\* the condition of the if at the top of the debounced function
shouldFetch(input) == Len(trim(input)) > 1

\* the URL the request goes to
searchUrl(input) ==
    "/api/courses/search?query=" \o encodeURIComponent(trim(input))

\* the request a fetch adds to those awaiting completion
Request(input) == [id |-> issued + 1, query |-> trim(input)]

\* handleInputChange: the onChange of the input box, which the browser
\* raises when the value of the box changes
handleInputChange(input) ==
    /\ mounted
    /\ input # searchInput
    /\ lastArgs = <<>> \/ burst.len < MaxBurst
    /\ searchInput' = input
    /\ lastArgs' = debounced(lastArgs, input)
    /\ burst' = IF lastArgs = <<>>
                THEN [len |-> 1, last |-> input]
                ELSE [burst EXCEPT !.len = @ + 1, !.last = input]
    /\ ev' = Event("key", input, "", 0)
    /\ calls' = <<>>
    /\ cleared' = FALSE
    /\ UNCHANGED <<props, suggestions, isLoading, mounted, inflight, issued,
                   owner>>

\* the timer runs out and the debounced function runs with the last
\* arguments, up to its await: either it sets isLoading and sends the
\* request, or it clears the list
timerFires ==
    /\ lastArgs # <<>>
    /\ LET input == lastArgs[1]
       IN  IF shouldFetch(input)
           THEN /\ issued < MaxFetches
                /\ isLoading' = TRUE
                /\ inflight' = inflight \cup {Request(input)}
                /\ issued' = issued + 1
                /\ calls' = <<Call("fetch", searchUrl(input))>>
                /\ ev' = Event("fire", input, "", issued + 1)
                /\ UNCHANGED <<suggestions, owner>>
           ELSE /\ suggestions' = <<>>
                /\ owner' = 0
                /\ calls' = <<>>
                /\ ev' = Event("fire", input, "", 0)
                /\ UNCHANGED <<isLoading, inflight, issued>>
    /\ lastArgs' = <<>>
    /\ burst' = [burst EXCEPT !.last = ""]
    /\ UNCHANGED <<props, searchInput, mounted, cleared>>

\* a catch block that leaves the list as it is
listAfterKeptOnFailure(data, failed) == data

\* what the completion of a request leaves in the list: the body of an ok
\* response, or the empty list the catch block sets
listAfter(data, failed) == IF failed THEN <<>> ELSE data

\* a completion with no finally block: isLoading stays as it is
loadingAfterNoFinally(failed) == isLoading

\* a finally block that runs on success only
loadingAfterStuckOnFailure(failed) == failed

\* isLoading after the finally block
loadingAfter(failed) == FALSE

\* a request completes with an ok response whose body is data: the code
\* after the awaits runs, setSuggestions(data) and the finally block.  The
\* request is not aborted by the cleanup, so its continuation calls the
\* setters whether or not the component is still mounted.
fetchSucceeds(f, data) ==
    /\ f \in inflight
    /\ suggestions' = listAfter(data, FALSE)
    /\ isLoading' = loadingAfter(FALSE)
    /\ inflight' = inflight \ {f}
    /\ owner' = f.id
    /\ ev' = Event("ok", "", "", f.id)
    /\ calls' = <<>>
    /\ UNCHANGED <<props, searchInput, mounted, lastArgs, issued, burst,
                   cleared>>

\* a request fails (fetch rejects, the status is not ok, or json() rejects):
\* the catch block logs and clears the list, then the finally block runs
fetchFails(f, cause) ==
    /\ f \in inflight
    /\ suggestions' = listAfter(suggestions, TRUE)
    /\ isLoading' = loadingAfter(TRUE)
    /\ inflight' = inflight \ {f}
    /\ owner' = f.id
    /\ ev' = Event("fail", cause, "", f.id)
    /\ calls' = <<Call("console.error", "Error fetching suggestions:")>>
    /\ UNCHANGED <<props, searchInput, mounted, lastArgs, issued, burst,
                   cleared>>

\* a cancel() that leaves the pending call in place
cancelKeepsPending(pending) == pending

\* fetchSuggestions.cancel(): the pending call after it
cancel(pending) == <<>>

\* the cleanup of the effect: the component is torn down and the pending
\* call is cancelled
unmount ==
    /\ mounted
    /\ mounted' = FALSE
    /\ lastArgs' = cancel(lastArgs)
    /\ ev' = Event("unmount", "", "", 0)
    /\ calls' = <<>>
    /\ UNCHANGED <<props, searchInput, suggestions, isLoading, inflight,
                   issued, owner, burst, cleared>>

\* an effect on initialValue that clears the list whatever the value is
initialValueChangesAlwaysClears(v) ==
    /\ mounted
    /\ v # initialValue
    /\ initialValue' = v
    /\ searchInput' = v
    /\ suggestions' = <<>>
    /\ owner' = 0
    /\ ev' = Event("initialValue", v, "", 0)
    /\ calls' = <<>>
    /\ UNCHANGED <<resetState, course, professor, routeType, isLoading,
                   mounted, lastArgs, inflight, issued, burst, cleared>>

\* the effect on initialValue: the caller passes another initialValue
initialValueChanges(v) ==
    /\ mounted
    /\ v # initialValue
    /\ initialValue' = v
    /\ searchInput' = v
    /\ suggestions' = IF v = "" THEN <<>> ELSE suggestions
    /\ owner' = IF v = "" THEN 0 ELSE owner
    /\ ev' = Event("initialValue", v, "", 0)
    /\ calls' = <<>>
    /\ UNCHANGED <<resetState, course, professor, routeType, isLoading,
                   mounted, lastArgs, inflight, issued, burst, cleared>>

(***************************************************************************)
(* handleSearch(suggestion), with suggestions the list of the render the   *)
(* handler belongs to.                                                     *)
(***************************************************************************)
\* a string prop in a condition: undefined and "" are falsy
truthy(prop) == prop # <<>> /\ prop[1] # ""

courseSuggestion(suggestion) == join(slice(split(suggestion), 2))

\* the comparison without the check of routeType
isSameCourseOnAnyRoute(suggestion) ==
    truthy(course) /\ startsWith(suggestion, course[1])

isSameCourse(suggestion) ==
    truthy(course) /\ startsWith(suggestion, course[1]) /\ routeType = "course"

isSameProfessor(suggestion) ==
    truthy(professor) /\ suggestion = professor[1] /\ routeType = "professor"

\* whether handleSearch calls resetState
callsResetState(suggestion) ==
    ~ (isSameCourse(suggestion) \/ isSameProfessor(suggestion)) /\ resetState

\* suggestions.find(s => s.suggestion === suggestion && s.type === "professor")
isProfessor(list, suggestion) ==
    \E i \in 1..Len(list) :
        list[i].suggestion = suggestion /\ list[i].type = "professor"

\* the check on the second part
isCourseNumber(courseNumber) ==
    Len(courseNumber) = 4 /\ ~ isNaNNumber(courseNumber)

\* suggestion after the reassignment
identifier(suggestion) ==
    LET parts == split(courseSuggestion(suggestion))
    IN  IF Len(parts) >= 2 /\ isCourseNumber(parts[2])
        THEN parts[1] \o " " \o parts[2]
        ELSE suggestion

\* the argument of router.push
resultsUrl(list, suggestion) ==
    IF isProfessor(list, suggestion)
    THEN "/results?professor=" \o encodeURIComponent(identifier(suggestion))
    ELSE "/results?course=" \o encodeURIComponent(identifier(suggestion))

\* a handleSearch that pushes the URL before it calls resetState
handleSearchCallsPushFirst(list, suggestion) ==
    <<Call("setSearchInput", suggestion), Call("setSuggestions", "[]"),
      Call("router.push", resultsUrl(list, suggestion))>>
    \o (IF callsResetState(suggestion)
        THEN <<Call("resetState", "")>>
        ELSE <<>>)

\* the calls handleSearch makes, in the order of its statements
handleSearchCalls(list, suggestion) ==
    <<Call("setSearchInput", suggestion), Call("setSuggestions", "[]")>>
    \o (IF callsResetState(suggestion)
        THEN <<Call("resetState", "")>>
        ELSE <<>>)
    \o <<Call("router.push", resultsUrl(list, suggestion))>>

handleSearch(suggestion) ==
    /\ searchInput' = suggestion
    /\ suggestions' = <<>>
    /\ owner' = 0
    /\ calls' = handleSearchCalls(suggestions, suggestion)
    /\ cleared' = TRUE
    /\ UNCHANGED <<props, isLoading, mounted, lastArgs, inflight, issued,
                   burst>>

\* the onClick of a list item; the list is rendered when it is not empty and
\* isLoading is false
clickSuggestion(i) ==
    /\ mounted
    /\ Len(suggestions) > 0 /\ ~ isLoading
    /\ i \in 1..Len(suggestions)
    /\ ev' = Event("click", suggestions[i].suggestion, suggestions[i].type, i)
    /\ handleSearch(suggestions[i].suggestion)

\* the way Enter and the search icon go when the list is empty: nothing runs
nothingSelected(kind) ==
    /\ ev' = Event(kind, "", "", 0)
    /\ calls' = <<>>
    /\ UNCHANGED <<props, searchInput, suggestions, isLoading, mounted,
                   lastArgs, inflight, issued, owner, burst, cleared>>

\* the last entry of the list for the first
lastEntry(list) == list[Len(list)]

\* suggestions[0], the entry Enter and the search icon select
firstEntry(list) == list[1]

\* onKeyDown with the Enter key
pressEnter ==
    /\ mounted
    /\ IF Len(suggestions) > 0
       THEN /\ ev' = Event("enter", firstEntry(suggestions).suggestion,
                           firstEntry(suggestions).type, 1)
            /\ handleSearch(firstEntry(suggestions).suggestion)
       ELSE nothingSelected("enter")

\* the onClick of the search icon
clickSearchIcon ==
    /\ mounted
    /\ IF Len(suggestions) > 0
       THEN /\ ev' = Event("icon", firstEntry(suggestions).suggestion,
                           firstEntry(suggestions).type, 1)
            /\ handleSearch(firstEntry(suggestions).suggestion)
       ELSE nothingSelected("icon")

(***************************************************************************)
(* The component from its mount on.                                        *)
(***************************************************************************)
Next ==
    \/ \E input \in Inputs : handleInputChange(input)
    \/ timerFires
    \/ \E f \in inflight : \E data \in Responses : fetchSucceeds(f, data)
    \/ \E f \in inflight : \E cause \in FailureCauses : fetchFails(f, cause)
    \/ \E i \in 1..MaxSuggestions : clickSuggestion(i)
    \/ pressEnter
    \/ clickSearchIcon
    \/ \E v \in InitialValues : initialValueChanges(v)
    \/ unmount

Spec == Init /\ [][Next]_vars

\* a request awaiting its completion completes, with a body or with a failure
fetchCompletes ==
    \E f \in inflight :
        \/ \E data \in Responses : fetchSucceeds(f, data)
        \/ \E cause \in FailureCauses : fetchFails(f, cause)

\* the same component where time passes: the timer of a pending call runs
\* out, and the requests sent come to their completion
SpecLive == Spec /\ WF_vars(timerFires) /\ WF_vars(fetchCompletes)

(***************************************************************************)
(* handleSearch alone: the component shows the list a request has just     *)
(* brought, on a page with any display context, and the user selects.      *)
(***************************************************************************)
InitResolve ==
    /\ initialValue = ""
    /\ resetState \in BOOLEAN
    /\ course \in CourseProps
    /\ professor \in ProfessorProps
    /\ routeType \in RouteTypes
    /\ searchInput = "cs"
    /\ suggestions \in Responses
    /\ isLoading = FALSE
    /\ mounted = TRUE
    /\ lastArgs = <<>>
    /\ inflight = {}
    /\ issued = 1
    /\ ev = Event("ok", "", "", 1)
    /\ calls = <<>>
    /\ owner = 1
    /\ burst = [len |-> 1, last |-> ""]
    /\ cleared = FALSE

NextResolve ==
    \/ \E i \in 1..MaxSuggestions : clickSuggestion(i)
    \/ pressEnter
    \/ clickSearchIcon

SpecResolve == InitResolve /\ [][NextResolve]_vars

(***************************************************************************)
(* What the properties below read off a state.                             *)
(***************************************************************************)
\* the last step was a selection: handleSearch ran
Selected == ev.kind \in {"click", "enter", "icon"} /\ ev.id > 0

\* the last step called fn
Called(fn) == \E i \in 1..Len(calls) : calls[i].fn = fn

\* the URL the last step pushed
Pushed == calls[Len(calls)].arg

\* an input too short to be queried
TooShort(input) == Len(trim(input)) <= 1

\* the pieces of s between runs of white space
RECURSIVE wordsFrom(_, _, _)
wordsFrom(s, i, word) ==
    LET done == IF word = "" THEN <<>> ELSE <<word>>
    IN  IF i > Len(s) THEN done
        ELSE IF CharAt(s, i) \in WhiteSpace
             THEN done \o wordsFrom(s, i + 1, "")
             ELSE wordsFrom(s, i + 1, word \o CharAt(s, i))

words(s) == wordsFrom(s, 1, "")

(***************************************************************************)
(* C1: if a request for input A is in flight when a later input B sends    *)
(* its request, and A's completion comes after B's, A's completion leaves  *)
(* the list B's completion produced as it is.  owner is the request whose  *)
(* completion produced the list.                                           *)
(***************************************************************************)
C1_LateResponseDoesNotOverwrite ==
    [][(ev'.kind \in {"ok", "fail"} /\ owner > 0 /\ ev'.id < owner)
          => suggestions' = suggestions]_vars

(***************************************************************************)
(* C2, as claimed: when the timer runs out after a burst of keystrokes,    *)
(* exactly one request is sent, with the trimmed text of the last          *)
(* keystroke as its query.                                                 *)
(***************************************************************************)
C2_EveryBurstSendsOneRequest ==
    [][(ev'.kind = "fire" /\ burst.len >= 2)
          => /\ issued' = issued + 1
             /\ inflight' = inflight \cup
                   {[id |-> issued + 1, query |-> trim(burst.last)]}]_vars

(***************************************************************************)
(* C2, amended: a keystroke sends no request; when the timer runs out      *)
(* after a burst, exactly one request is sent if the trimmed text of the   *)
(* last keystroke is longer than one character, with that trimmed text as  *)
(* its query, and no request is sent otherwise.                            *)
(***************************************************************************)
C2_BurstSendsOneRequestIfLongEnough ==
    [][/\ ev'.kind = "key"
            => issued' = issued /\ inflight' = inflight /\ ~ Called("fetch")'
       /\ ev'.kind = "fire"
            => IF Len(trim(burst.last)) > 1
               THEN /\ issued' = issued + 1
                    /\ inflight' = inflight \cup
                          {[id |-> issued + 1, query |-> trim(burst.last)]}
                    /\ Len(calls') = 1 /\ calls'[1].fn = "fetch"
               ELSE /\ issued' = issued
                    /\ inflight' = inflight
                    /\ ~ Called("fetch")']_vars

\* the timer has run out after a burst of two keystrokes or more, and one
\* request went out
C2_Witness ==
    /\ ev.kind = "fire"
    /\ burst.len >= 2
    /\ Called("fetch")
    /\ \E f \in inflight : f.id = ev.id

(***************************************************************************)
(* C3: a request is sent only by the debounced function running with an    *)
(* input whose trimmed length is greater than 1, and it carries that       *)
(* trimmed text; a step that handles an input whose trimmed length is 0 or *)
(* 1 sends nothing and leaves isLoading as it was.                         *)
(***************************************************************************)
C3_RequestOnlyForLongInput ==
    [][/\ (issued' # issued \/ inflight' \ inflight # {} \/ Called("fetch")')
            => /\ ev'.kind = "fire"
               /\ Len(trim(ev'.text)) > 1
               /\ inflight' \ inflight =
                     {[id |-> issued', query |-> trim(ev'.text)]}
               /\ calls' = <<Call("fetch", "/api/courses/search?query="
                                   \o encodeURIComponent(trim(ev'.text)))>>
       /\ (ev'.kind \in {"key", "fire"} /\ TooShort(ev'.text))
            => /\ issued' = issued
               /\ inflight' = inflight
               /\ calls' = <<>>
               /\ isLoading' = isLoading]_vars

\* the debounced function has run with an input of two characters whose
\* trimmed length is 1, after an earlier input had sent a request
C3_Witness ==
    /\ ev.kind = "fire"
    /\ Len(ev.text) > 1 /\ TooShort(ev.text)
    /\ issued = 1
    /\ calls = <<>>

C5_FailureClearsAndStopsLoading ==
    [][ev'.kind = "fail"
          => /\ suggestions' = <<>>
             /\ isLoading' = FALSE
             /\ calls' = <<Call("console.error", "Error fetching suggestions:")>>
             /\ issued' = issued
             /\ inflight' \subseteq inflight
             /\ Cardinality(inflight') = Cardinality(inflight) - 1]_vars

\* the second request has failed with a status that is not ok while the
\* first is still awaited
C5_Witness ==
    /\ ev.kind = "fail" /\ ev.text = "status" /\ ev.id = 2
    /\ inflight # {}
    /\ suggestions = <<>> /\ ~ isLoading

(***************************************************************************)
(* C6, as claimed: on a selection with resetState passed, resetState is    *)
(* called exactly when neither holds: routeType is course, course is not   *)
(* null and the text starts with course; routeType is professor and the    *)
(* text equals professor.  The empty string is a value like any other.     *)
(***************************************************************************)
C6_ResetUnlessSame ==
    (Selected /\ resetState)
       => (Called("resetState")
             <=> ~ \/ /\ routeType = "course"
                      /\ course # <<>>
                      /\ startsWith(ev.text, course[1])
                   \/ /\ routeType = "professor"
                      /\ professor = <<ev.text>>)

(***************************************************************************)
(* C6, amended: the same, with a course or professor that is the empty     *)
(* string counting as one that is not passed: resetState is called then.   *)
(***************************************************************************)
C6_ResetUnlessSameNonEmpty ==
    (Selected /\ resetState)
       => (Called("resetState")
             <=> ~ \/ /\ routeType = "course"
                      /\ course # <<>> /\ course # <<"">>
                      /\ startsWith(ev.text, course[1])
                   \/ /\ routeType = "professor"
                      /\ professor # <<"">>
                      /\ professor = <<ev.text>>)

\* "CSE 3320 OS" has been selected on the page of the course CSE 3320 and
\* resetState has not been called
C6_Witness ==
    /\ Selected /\ resetState
    /\ routeType = "course" /\ course = <<"CSE 3320">>
    /\ ev.text = "CSE 3320 OS"
    /\ ~ Called("resetState")
    /\ Called("router.push")

(***************************************************************************)
(* C7: the identifier pushed is the first two words of the selected text,  *)
(* joined by a space, exactly when the text has two words or more of which *)
(* the second is four digits; it is the selected text otherwise.           *)
(***************************************************************************)
C7_IdentifierIsCanonical ==
    Selected
       => LET w == words(ev.text)
              id == IF Len(w) >= 2 /\ Len(w[2]) = 4 /\ AllIn(w[2], Digits)
                    THEN w[1] \o " " \o w[2]
                    ELSE ev.text
          IN  Pushed \in {"/results?course=" \o encodeURIComponent(id),
                          "/results?professor=" \o encodeURIComponent(id)}

(***************************************************************************)
(* C8: the category of the URL pushed is the type of the entry selected.   *)
(***************************************************************************)
C8_CategoryIsSelectedType ==
    Selected => startsWith(Pushed, "/results?" \o ev.type \o "=")

(***************************************************************************)
(* C9: selecting an entry of type professor pushes                         *)
(* /results?professor=<the entry's text, URL-encoded>.                     *)
(***************************************************************************)
C9_ProfessorKeepsText ==
    (Selected /\ ev.type = "professor")
       => Pushed = "/results?professor=" \o encodeURIComponent(ev.text)

(***************************************************************************)
(* C10: on a selection with resetState passed, resetState is called        *)
(* exactly when the target pushed differs from what the page displays:     *)
(* the course of a course page, the professor of a professor page.  A     *)
(* page whose course or professor is left out or empty displays nothing.   *)
(***************************************************************************)
C10_ResetExactlyWhenTargetDiffers ==
    (Selected /\ resetState)
       => (Called("resetState")
             <=> ~ \/ /\ routeType = "course"
                      /\ course # <<>> /\ course # <<"">>
                      /\ Pushed = "/results?course="
                                     \o encodeURIComponent(course[1])
                   \/ /\ routeType = "professor"
                      /\ professor # <<>> /\ professor # <<"">>
                      /\ Pushed = "/results?professor="
                                     \o encodeURIComponent(professor[1]))

(***************************************************************************)
(* C11: in every reachable state, isLoading is true only if a request      *)
(* sent for the current input is in flight, and isLoading is false         *)
(* whenever the input is empty or its trimmed text has fewer than two      *)
(* characters.                                                             *)
(***************************************************************************)
C11_LoadingOnlyForCurrentInput ==
    /\ isLoading => \E f \in inflight : f.query = trim(searchInput)
    /\ TooShort(searchInput) => ~ isLoading

(***************************************************************************)
(* C12: the completion of a request changes the list only if the input     *)
(* that sent the request is still the current input when it completes; a   *)
(* request whose input has been replaced since leaves the list unchanged.  *)
(***************************************************************************)
C12_SupersededResultIsDiscarded ==
    [][\A f \in inflight :
          (ev'.kind \in {"ok", "fail"} /\ ev'.id = f.id
              /\ f.query # trim(searchInput))
             => suggestions' = suggestions]_vars

(***************************************************************************)
(* C13: tearing the component down cancels the pending call of the         *)
(* debounced function: after the teardown no call is pending, the          *)
(* debounced function never runs, no request is sent, and suggestions and  *)
(* isLoading change only when a request sent before the teardown completes.*)
(***************************************************************************)
C13_TeardownCancelsPendingCall ==
    [][/\ ev'.kind = "unmount" => lastArgs' = <<>>
       /\ ~ mounted
            => /\ lastArgs' = <<>>
               /\ ev'.kind # "fire"
               /\ issued' = issued
               /\ inflight' \subseteq inflight
               /\ ~ Called("fetch")'
               /\ (suggestions' # suggestions \/ isLoading' # isLoading)
                     => ev'.kind \in {"ok", "fail"}]_vars

\* torn down while a call with a text long enough to be queried was pending,
\* and a request sent before the teardown has completed since
C13_Witness ==
    /\ ~ mounted
    /\ burst.last = "cs"
    /\ lastArgs = <<>>
    /\ ev.kind = "ok"
    /\ issued = 1

(***************************************************************************)
(* C14: with a list that is not empty, Enter and the search icon do what   *)
(* a click on the first entry of the list does: the same update of the     *)
(* component's state, the same decision on resetState and the same URL     *)
(* pushed.  With an empty list Enter and the icon select nothing, call     *)
(* nothing and change nothing.  The first conjunct is what a click on      *)
(* entry i does, so that the second is the same for i = 1.                 *)
(***************************************************************************)
C14_EnterAndIconSelectFirstEntry ==
    [][/\ ev'.kind = "click"
            => LET entry == suggestions[ev'.id]
               IN  /\ searchInput' = entry.suggestion
                   /\ suggestions' = <<>>
                   /\ isLoading' = isLoading
                   /\ Called("resetState")' = callsResetState(entry.suggestion)
                   /\ Pushed' = resultsUrl(suggestions, entry.suggestion)
                   /\ Len(calls') = IF Called("resetState")' THEN 4 ELSE 3
       /\ (ev'.kind \in {"enter", "icon"} /\ Len(suggestions) > 0)
            => LET entry == suggestions[1]
               IN  /\ ev'.text = entry.suggestion /\ ev'.type = entry.type
                   /\ searchInput' = entry.suggestion
                   /\ suggestions' = <<>>
                   /\ isLoading' = isLoading
                   /\ Called("resetState")' = callsResetState(entry.suggestion)
                   /\ Pushed' = resultsUrl(suggestions, entry.suggestion)
                   /\ Len(calls') = IF Called("resetState")' THEN 4 ELSE 3
       /\ (ev'.kind \in {"enter", "icon"} /\ Len(suggestions) = 0)
            => /\ ev'.id = 0
               /\ calls' = <<>>
               /\ UNCHANGED <<searchInput, suggestions, isLoading>>]_vars

\* Enter selected the first of two entries that differ, with no call of
\* resetState
C14_Witness ==
    /\ ev.kind = "enter" /\ ev.id = 1
    /\ ev.text = "CSE 3320 OS" /\ ev.type = "professor"
    /\ searchInput = "CSE 3320 OS"
    /\ Pushed = "/results?professor=CSE%203320"
    /\ ~ Called("resetState")

(***************************************************************************)
(* C15: if the keystrokes stop, then, the timer running out and the        *)
(* requests sent completing, the component comes to a state with isLoading *)
(* false and no request in flight, and stays in such states from then on.  *)
(***************************************************************************)
C15_ReturnsToIdle ==
    (<>[][ev'.kind # "key"]_vars) => <>[](~ isLoading /\ inflight = {})

\* idle again after two requests, the last of which failed
C15_Witness ==
    /\ ~ isLoading /\ inflight = {} /\ lastArgs = <<>>
    /\ issued = 2
    /\ ev.kind = "fail"

(***************************************************************************)
(* C16, as claimed: at every moment at most one request is in flight.      *)
(***************************************************************************)
C16_AtMostOneRequestInFlight == Cardinality(inflight) <= 1

(***************************************************************************)
(* C16, amended: at every moment at most one call of the debounced         *)
(* function is pending, a keystroke replacing the pending call by its own, *)
(* and a step sends at most one request; a request already sent is not     *)
(* aborted, so that several requests can be in flight.                     *)
(***************************************************************************)
C16_AtMostOnePendingCall ==
    [][/\ Len(lastArgs') <= 1
       /\ ev'.kind = "key" => lastArgs' = <<ev'.text>>
       /\ issued' \in {issued, issued + 1}
       /\ Cardinality(inflight' \ inflight) = issued' - issued]_vars

\* two requests in flight and a third call pending
C16_Witness ==
    /\ Cardinality(inflight) = 2
    /\ lastArgs # <<>>
    /\ isLoading

(***************************************************************************)
(* C17: a selection clears the list, then calls resetState at most once,   *)
(* and only if it was passed and the URL to push is not that of the course *)
(* or professor the page displays, then pushes exactly one URL: resetState *)
(* is not called after the push and the push is the last call.  The list   *)
(* is empty in the state the selection leaves.                             *)
(***************************************************************************)
C17_ClearThenResetThenPush ==
    LET at(fn) == {i \in 1..Len(calls) : calls[i].fn = fn}
    IN  Selected
          => /\ suggestions = <<>>
             /\ Cardinality(at("setSuggestions")) = 1
             /\ Cardinality(at("resetState")) <= 1
             /\ Cardinality(at("router.push")) = 1
             /\ at("resetState") # {}
                   => /\ resetState
                      /\ ~ (routeType = "course" /\ truthy(course)
                             /\ Pushed = "/results?course="
                                    \o encodeURIComponent(course[1]))
                      /\ ~ (routeType = "professor" /\ truthy(professor)
                             /\ Pushed = "/results?professor="
                                    \o encodeURIComponent(professor[1]))
             /\ \A c \in at("setSuggestions") : calls[c].arg = "[]"
             /\ \A c \in at("setSuggestions") :
                   \A r \in at("resetState") \cup at("router.push") : c < r
             /\ \A r \in at("resetState") : \A p \in at("router.push") : r < p
             /\ at("router.push") = {Len(calls)}

\* a selection that called resetState and then pushed
C17_Witness ==
    /\ Selected
    /\ Called("resetState")
    /\ calls[Len(calls) - 1].fn = "resetState"
    /\ calls[Len(calls)].fn = "router.push"
    /\ suggestions = <<>>

(***************************************************************************)
(* C18, as claimed: searchInput changes only on a keystroke; isLoading and *)
(* suggestions change only when a request is sent or completes, but for a  *)
(* selection, which clears suggestions and changes nothing else of the     *)
(* component's state.                                                      *)
(***************************************************************************)
C18_OnlyListedEventsWrite ==
    [][/\ searchInput' # searchInput => ev'.kind = "key"
       /\ isLoading' # isLoading
            => (ev'.kind \in {"ok", "fail"} \/ (ev'.kind = "fire" /\ ev'.id > 0))
       /\ suggestions' # suggestions
            => \/ ev'.kind \in {"ok", "fail"}
               \/ ev'.kind = "fire" /\ ev'.id > 0
               \/ Selected' /\ suggestions' = <<>>
       /\ Selected' => /\ searchInput' = searchInput
                       /\ isLoading' = isLoading]_vars

(***************************************************************************)
(* C18, amended: searchInput changes only on a keystroke (to the text      *)
(* typed), on a selection (to the text selected) or when initialValue      *)
(* changes (to initialValue); isLoading changes only when a request is     *)
(* sent (to true) or completes (to false); suggestions changes only when a *)
(* request completes, or to the empty list when the debounced function     *)
(* runs with an input too short to be queried, on a selection, or when     *)
(* initialValue becomes empty.  A selection leaves isLoading unchanged.    *)
(***************************************************************************)
C18_OnlyTheseEventsWrite ==
    [][/\ searchInput' # searchInput
            => \/ ev'.kind = "key" /\ searchInput' = ev'.text
               \/ Selected' /\ searchInput' = ev'.text
               \/ ev'.kind = "initialValue" /\ searchInput' = initialValue'
       /\ isLoading' # isLoading
            => \/ ev'.kind = "fire" /\ ev'.id > 0 /\ isLoading'
               \/ ev'.kind \in {"ok", "fail"} /\ ~ isLoading'
       /\ suggestions' # suggestions
            => \/ ev'.kind \in {"ok", "fail"}
               \/ /\ suggestions' = <<>>
                  /\ \/ ev'.kind = "fire" /\ TooShort(ev'.text)
                     \/ Selected'
                     \/ ev'.kind = "initialValue" /\ initialValue' = ""
       /\ Selected' => /\ searchInput' = ev'.text
                       /\ suggestions' = <<>>
                       /\ isLoading' = isLoading]_vars

\* a selection made while a request is in flight: the input box holds the
\* text selected and isLoading is still true
C18_Witness ==
    /\ Selected
    /\ searchInput = "Jane Smith"
    /\ isLoading
    /\ suggestions = <<>>

(***************************************************************************)
(* C19: in every reachable state, isLoading true implies that a request is *)
(* in flight (the request sent last); a step that sets isLoading sends a   *)
(* request, and a step that completes a request leaves isLoading false.    *)
(***************************************************************************)
C19_LoadingImpliesRequestInFlight ==
    /\ isLoading => \E f \in inflight : f.id = issued
    /\ ev.kind = "fire" /\ ev.id > 0 => isLoading
    /\ ev.kind \in {"ok", "fail"} => ~ isLoading

\* the second request is in flight after the first one failed
C19_Witness ==
    /\ isLoading
    /\ issued = 2
    /\ Cardinality(inflight) = 1
    /\ owner = 1 /\ suggestions = <<>>
    /\ ev.kind = "fire"

(***************************************************************************)
(* C20: after a selection has cleared the list, the list is empty in every *)
(* state up to the next keystroke.                                         *)
(***************************************************************************)
C20_ListStaysEmptyAfterSelection == cleared => suggestions = <<>>

=============================================================================
